---------------------------- MODULE Spec2Model ----------------------------
(* osoy-aur: the Install and Remove batches of Opt::exec (src/src/main.rs). *)
(* One behaviour is one invocation of the program: Init draws the command   *)
(* line and the source tree, the actions are the steps of exec in program   *)
(* order, and every external collaborator (gitutil::clone, rm, makepkg,     *)
(* pacman, the yes/no prompt, chdir) is a nondeterministic outcome.         *)
EXTENDS Integers, Sequences, FiniteSets, TLC

\* ---------------------------------------------------------------- bounds
\* longest Install target list
MaxTargets == 3
\* longest Remove target (pattern) list
MaxPatterns == 2

\* ------------------------------------------------------- program constants
AUR_URL == "https://aur.archlinux.org/"

\* package names: shorthand targets, and the directories they are cloned into
Names == {"foo", "bar", "foobar"}
\* a target that is a fully-qualified remote URL of its own
URL_TARGET == "https://example.org/pkg"
\* a target T for which Location::from_str rejects AUR_URL followed by T
BAD_TARGET == "%"
\* directory names that can exist under config.src
Dirs == Names \cup {URL_TARGET}
\* what an Install target can be
InstallTargets == {"foo", URL_TARGET, BAD_TARGET}
\* what a List target can be
ListTargets == {"foo", URL_TARGET, BAD_TARGET}
\* what a Remove target can be: a name, a regular expression, a malformed one
Patterns == {"foo", "bar", "foo.*", "("}
\* what a Remove target can be
RemoveTargets == Patterns \cup {BAD_TARGET}
\* the directory entries of config.src in the order read_dir lists them
Entries == <<"foo", "bar", "foobar">>

\* process exit codes: status.code(), or 1 when the command could not be run
ExitCodes == {0, 1}
\* what `rm -rf path` did
RmOutcomes == {"removed", "failed"}
\* what a failed gitutil::clone left at the destination
CloneLeftovers == {"none", "partial"}

SeqsUpTo(S, n) == UNION {[1..m -> S] : m \in 0..n}

VARIABLES
    cmd,          \* the subcommand: "Install", "Remove" or "List"
    targets,      \* opt.targets as given on the command line
    force,        \* opt.force (Remove)
    regex,        \* opt.regex (Remove)
    srcReadable,  \* whether config.src can be listed
    fs,           \* config.src: directory -> "none" | "repo" | "partial"
    fs0,          \* config.src as it was when the program started
    pc,           \* position in exec
    opt_targets,  \* opt.targets after rename_targets
    errors,       \* let mut errors
    paths,        \* let mut paths (Install): indices of the collected targets
    iter,         \* the matcher's sequence of paths (Remove)
    i,            \* position of the running loop
    log,          \* external operations performed so far, in order
    ret,          \* the value exec returned, -1 before it returns
    auth_cache,   \* the AuthCache instances made so far: does each hold credentials
    clone_auth    \* for each gitutil::clone call: the cache it was given

vars == <<cmd, targets, force, regex, srcReadable, fs, fs0, pc, opt_targets,
          errors, paths, iter, i, log, ret, auth_cache, clone_auth>>

\* ------------------------------------------------------------- pure parts

\* the input looks like a fully-qualified remote URL
IsUrl(target) == target = URL_TARGET

\* Location::from_str(&format!("{}{}", base, target)) returns Ok
Parses(base, target) == target # BAD_TARGET

\* Location::from_str(&format!("{}{}", base, target)): url and id. The
\* string starts with the base, a URL, so it is the url as it stands; the id
\* is written without the part every id of the run shares.
LocationFromStr(base, target) == [url |-> <<base, target>>, id |-> target]

\* mutant: fill_empty is ignored, an empty list always becomes the sentinel
rename_targets_AlwaysFills(ts, fill_empty) ==
    IF Len(ts) > 0
    THEN [n \in 1..Len(ts) |-> LocationFromStr(AUR_URL, ts[n])]
    ELSE <<LocationFromStr(AUR_URL, "")>>

\* mutant: a target that is a URL of its own is resolved as it stands
rename_targets_KeepsUrls(ts, fill_empty) ==
    IF ~fill_empty \/ Len(ts) > 0
    THEN [n \in 1..Len(ts) |->
            IF IsUrl(ts[n])
            THEN [url |-> <<ts[n]>>, id |-> ts[n]]
            ELSE LocationFromStr(AUR_URL, ts[n])]
    ELSE <<LocationFromStr(AUR_URL, "")>>

\* the unwrap() of rename_targets panics: some target does not parse
rename_panics(ts) == \E n \in 1..Len(ts) : ~Parses(AUR_URL, ts[n])

rename_targets(ts, fill_empty) ==
    IF ~fill_empty \/ Len(ts) > 0
    THEN [n \in 1..Len(ts) |-> LocationFromStr(AUR_URL, ts[n])]
    ELSE <<LocationFromStr(AUR_URL, "")>>

\* config.src.join(&id)
PathOf(location) == location.id

\* path.exists()
Exists(f, path) == f[path] # "none"

\* force_remove_dir: the exit code of `rm -rf path`, 1 when it has none
force_remove_dir(outcome) == IF outcome = "removed" THEN 0 ELSE 1

\* mutant: rm without -r -f gives up on a directory that has content
RemoveDirFs_NotRecursive(f, path, outcome) ==
    IF outcome = "removed" /\ path \in DOMAIN f /\ f[path] = "none"
    THEN [f EXCEPT ![path] = "none"]
    ELSE f

\* force_remove_dir: what `rm -rf path` leaves of the tree
RemoveDirFs(f, path, outcome) ==
    IF outcome = "removed" /\ path \in DOMAIN f
    THEN [f EXCEPT ![path] = "none"]
    ELSE f

\* one external operation: what ran, for which target (its index), whether it
\* succeeded, and what stood at its path when it ran
Event(op, t, ok, was) == [op |-> op, t |-> t, ok |-> ok, was |-> was]

\* ------------------------------------------------------ repository matcher
Malformed(p) == p = "("

\* the entry names a pattern fully matches
RegexLang(p) ==
    CASE p = "foo.*" -> {"foo", "foobar"}
      [] p = "("     -> {}
      [] OTHER       -> {p}

Matches(location, name, use_regex) ==
    IF use_regex THEN name \in RegexLang(location.id) ELSE name = location.id

MatcherFails(ts, use_regex, readable) ==
    \/ ~readable
    \/ use_regex /\ \E n \in 1..Len(ts) : Malformed(ts[n].id)

iterate_matching_exists(f, ts, use_regex) ==
    SelectSeq(Entries, LAMBDA name :
        /\ Exists(f, name)
        /\ \E n \in 1..Len(ts) : Matches(ts[n], name, use_regex))

\* ------------------------------------------------------------------- Init
Init ==
    /\ cmd \in {"Install", "Remove", "List"}
    /\ \/ /\ cmd = "Install"
          /\ targets \in SeqsUpTo(InstallTargets, MaxTargets)
          /\ force = FALSE
          /\ regex = FALSE
          /\ srcReadable = TRUE
       \/ /\ cmd = "Remove"
          /\ targets \in SeqsUpTo(RemoveTargets, MaxPatterns)
          /\ force \in BOOLEAN
          /\ regex \in BOOLEAN
          /\ srcReadable \in BOOLEAN
       \/ /\ cmd = "List"
          /\ targets \in SeqsUpTo(ListTargets, MaxPatterns)
          /\ force = FALSE
          /\ regex = FALSE
          /\ srcReadable = TRUE
    \* a directory no target of the command can name is left out of the tree
    /\ fs \in {f \in [Dirs -> {"none", "repo"}] :
                 \A d \in Dirs :
                    (IF cmd = "Install" THEN d \notin InstallTargets
                                        ELSE d = URL_TARGET) => f[d] = "none"}
    /\ fs0 = fs
    /\ pc = "start"
    /\ opt_targets = <<>>
    /\ errors = 0
    /\ paths = <<>>
    /\ iter = <<>>
    /\ i = 1
    /\ log = <<>>
    /\ ret = -1
    /\ auth_cache = <<>>
    /\ clone_auth = <<>>

Opts == <<cmd, targets, force, regex, srcReadable, fs0>>
Auth == <<auth_cache, clone_auth>>

\* mutant: AuthCache::new() is called for each clone
PassAuthCache_Fresh ==
    \E stores \in BOOLEAN :
        /\ auth_cache' = Append(auth_cache, stores)
        /\ clone_auth' = Append(clone_auth,
              [t |-> i, cache |-> Len(auth_cache) + 1, seen |-> FALSE,
               stored |-> stores])

\* line 173: gitutil::clone(.., &auth_cache) is given the cache made at line
\* 162; it may negotiate credentials and store them when the cache has none
PassAuthCache ==
    \E stores \in (IF auth_cache[1] THEN {FALSE} ELSE BOOLEAN) :
        /\ auth_cache' = [auth_cache EXCEPT ![1] = stores \/ @]
        /\ clone_auth' = Append(clone_auth,
              [t |-> i, cache |-> 1, seen |-> auth_cache[1], stored |-> stores])

\* lines 51, 161, 238, 306: Location::from_str returned Err and unwrap()
\* panicked; the process ends before exec has done anything else
RenamePanic ==
    /\ pc = "start"
    /\ rename_panics(targets)
    /\ pc' = "panicked"
    /\ UNCHANGED <<Opts, Auth, fs, opt_targets, errors, paths, iter, i, log, ret>>

\* lines 305-306: List resolves its targets, an empty list becomes the sentinel
ListStart ==
    /\ pc = "start" /\ cmd = "List"
    /\ ~rename_panics(targets)
    /\ opt_targets' = rename_targets(targets, TRUE)
    /\ pc' = "list"
    /\ UNCHANGED <<Opts, Auth, fs, errors, paths, iter, i, log, ret>>

\* line 307: the list operator runs and its result is returned; it leaves the
\* tree as it is
ListExec ==
    /\ pc = "list"
    /\ ret' \in ExitCodes
    /\ pc' = "done"
    /\ UNCHANGED <<Opts, Auth, fs, opt_targets, errors, paths, iter, i, log>>

\* ---------------------------------------------------------------- Install
\* lines 161-164: the targets are resolved and the one AuthCache is made
InstallStart ==
    /\ pc = "start" /\ cmd = "Install"
    /\ ~rename_panics(targets)
    /\ opt_targets' = rename_targets(targets, FALSE)
    /\ errors' = 0
    /\ paths' = <<>>
    /\ i' = 1
    /\ pc' = "phase1"
    /\ UNCHANGED <<Opts, fs, iter, log, ret>>
    /\ auth_cache' = <<FALSE>>
    /\ UNCHANGED clone_auth

\* mutant: the path.exists() test is dropped, an existing path is cloned over
InstallReuse_Reclones ==
    /\ pc = "phase1" /\ i <= Len(opt_targets)
    /\ Exists(fs, PathOf(opt_targets[i]))
    /\ paths' = Append(paths, i)
    /\ log' = log \o <<Event("reuse", i, TRUE, fs[PathOf(opt_targets[i])]),
                       Event("clone", i, TRUE, fs[PathOf(opt_targets[i])])>>
    /\ fs' = [fs EXCEPT ![PathOf(opt_targets[i])] = "repo"]
    /\ i' = i + 1
    /\ UNCHANGED <<Opts, Auth, pc, opt_targets, errors, iter, ret>>

\* mutant: the path.exists() test is dropped; the clone into the existing
\* directory fails and the cleanup is run on it
InstallReuse_ClonesAnyway ==
    /\ pc = "phase1" /\ i <= Len(opt_targets)
    /\ Exists(fs, PathOf(opt_targets[i]))
    /\ errors' = errors + 1
    /\ log' = Append(log, Event("clone", i, FALSE, fs[PathOf(opt_targets[i])]))
    /\ pc' = "cleanup"
    /\ UNCHANGED <<Opts, fs, opt_targets, paths, iter, i, ret>>
    /\ PassAuthCache

\* lines 166-171: the path exists, it is collected without a clone
InstallReuse ==
    /\ pc = "phase1" /\ i <= Len(opt_targets)
    /\ Exists(fs, PathOf(opt_targets[i]))
    /\ paths' = Append(paths, i)
    /\ log' = Append(log, Event("reuse", i, TRUE, fs[PathOf(opt_targets[i])]))
    /\ i' = i + 1
    /\ UNCHANGED <<Opts, Auth, fs, pc, opt_targets, errors, iter, ret>>

\* mutant: one loop, a cloned target is built as soon as its clone is done
InstallCloneOk_BuildsAtOnce ==
    /\ pc = "phase1" /\ i <= Len(opt_targets)
    /\ ~Exists(fs, PathOf(opt_targets[i]))
    /\ fs' = [fs EXCEPT ![PathOf(opt_targets[i])] = "repo"]
    /\ \E exit_code \in ExitCodes :
          /\ errors' = IF exit_code # 0 THEN errors + 1 ELSE errors
          /\ log' = log \o
                <<Event("clone", i, TRUE, fs[PathOf(opt_targets[i])]),
                  Event("chdir", i, TRUE, "repo"),
                  Event("makepkg", i, exit_code = 0, "repo")>>
    /\ i' = i + 1
    /\ UNCHANGED <<Opts, pc, opt_targets, paths, iter, ret>>
    /\ PassAuthCache

\* lines 173-177: gitutil::clone returned Ok
InstallCloneOk ==
    /\ pc = "phase1" /\ i <= Len(opt_targets)
    /\ ~Exists(fs, PathOf(opt_targets[i]))
    /\ fs' = [fs EXCEPT ![PathOf(opt_targets[i])] = "repo"]
    /\ paths' = Append(paths, i)
    /\ log' = Append(log, Event("clone", i, TRUE, fs[PathOf(opt_targets[i])]))
    /\ i' = i + 1
    /\ UNCHANGED <<Opts, pc, opt_targets, errors, iter, ret>>
    /\ PassAuthCache

\* mutant: the path of a failed clone is collected for phase 2 all the same
InstallCloneErr_Collects ==
    /\ pc = "phase1" /\ i <= Len(opt_targets)
    /\ ~Exists(fs, PathOf(opt_targets[i]))
    /\ \E left \in CloneLeftovers :
          fs' = [fs EXCEPT ![PathOf(opt_targets[i])] = left]
    /\ errors' = errors + 1
    /\ paths' = Append(paths, i)
    /\ log' = Append(log, Event("clone", i, FALSE, fs[PathOf(opt_targets[i])]))
    /\ pc' = "cleanup"
    /\ UNCHANGED <<Opts, opt_targets, iter, i, ret>>
    /\ PassAuthCache

\* lines 173, 178-183: gitutil::clone returned Err
InstallCloneErr ==
    /\ pc = "phase1" /\ i <= Len(opt_targets)
    /\ ~Exists(fs, PathOf(opt_targets[i]))
    /\ \E left \in CloneLeftovers :
          fs' = [fs EXCEPT ![PathOf(opt_targets[i])] = left]
    /\ errors' = errors + 1
    /\ log' = Append(log, Event("clone", i, FALSE, fs[PathOf(opt_targets[i])]))
    /\ pc' = "cleanup"
    /\ UNCHANGED <<Opts, opt_targets, paths, iter, i, ret>>
    /\ PassAuthCache

\* mutant: a failed cleanup is counted as one more error
InstallCleanup_Counted ==
    /\ pc = "cleanup"
    /\ \E outcome \in RmOutcomes :
          /\ fs' = RemoveDirFs(fs, PathOf(opt_targets[i]), outcome)
          /\ errors' = IF force_remove_dir(outcome) # 0 THEN errors + 1 ELSE errors
          /\ log' = Append(log, Event("rm", i, force_remove_dir(outcome) = 0,
                                       fs[PathOf(opt_targets[i])]))
    /\ i' = i + 1
    /\ pc' = "phase1"
    /\ UNCHANGED <<Opts, Auth, opt_targets, paths, iter, ret>>

\* line 184: force_remove_dir, its exit code dropped
InstallCleanup ==
    /\ pc = "cleanup"
    /\ \E outcome \in RmOutcomes :
          /\ fs' = RemoveDirFs(fs, PathOf(opt_targets[i]), outcome)
          /\ log' = Append(log, Event("rm", i, force_remove_dir(outcome) = 0,
                                       fs[PathOf(opt_targets[i])]))
    /\ i' = i + 1
    /\ pc' = "phase1"
    /\ UNCHANGED <<Opts, Auth, opt_targets, errors, paths, iter, ret>>

\* mutant: a path collected more than once is built once
InstallInfo_Dedups ==
    /\ pc = "phase1" /\ i > Len(opt_targets)
    /\ pc' = "phase2"
    /\ i' = 1
    /\ paths' = SelectSeq(paths, LAMBDA t :
          \A u \in 1..(t - 1) :
              (\E k \in 1..Len(paths) : paths[k] = u) =>
                  PathOf(opt_targets[u]) # PathOf(opt_targets[t]))
    /\ UNCHANGED <<Opts, Auth, fs, opt_targets, errors, iter, log, ret>>

\* line 190: the first loop is over
InstallInfo ==
    /\ pc = "phase1" /\ i > Len(opt_targets)
    /\ pc' = "phase2"
    /\ i' = 1
    /\ UNCHANGED <<Opts, Auth, fs, opt_targets, errors, paths, iter, log, ret>>

\* mutant: the failed chdir is reported but not counted
InstallChdirErr_Uncounted ==
    /\ pc = "phase2" /\ i <= Len(paths)
    /\ log' = Append(log, Event("chdir", paths[i], FALSE,
                               fs[PathOf(opt_targets[paths[i]])]))
    /\ i' = i + 1
    /\ UNCHANGED <<Opts, Auth, fs, pc, opt_targets, errors, paths, iter, ret>>

\* lines 193, 224-227: env::set_current_dir returned Err
InstallChdirErr ==
    /\ pc = "phase2" /\ i <= Len(paths)
    /\ errors' = errors + 1
    /\ log' = Append(log, Event("chdir", paths[i], FALSE,
                               fs[PathOf(opt_targets[paths[i]])]))
    /\ i' = i + 1
    /\ UNCHANGED <<Opts, Auth, fs, pc, opt_targets, paths, iter, ret>>

\* mutant: a non-zero makepkg ends the batch
InstallMakepkg_FailFast ==
    /\ pc = "phase2" /\ i <= Len(paths)
    /\ Exists(fs, PathOf(opt_targets[paths[i]]))
    /\ \E exit_code \in ExitCodes :
          /\ errors' = IF exit_code # 0 THEN errors + 1 ELSE errors
          /\ log' = log \o
                <<Event("chdir", paths[i], TRUE,
                        fs[PathOf(opt_targets[paths[i]])]),
                  Event("makepkg", paths[i], exit_code = 0,
                        fs[PathOf(opt_targets[paths[i]])])>>
          /\ i' = IF exit_code # 0 THEN Len(paths) + 1 ELSE i + 1
    /\ UNCHANGED <<Opts, Auth, fs, pc, opt_targets, paths, iter, ret>>

\* lines 193-222: env::set_current_dir returned Ok, makepkg ran
InstallMakepkg ==
    /\ pc = "phase2" /\ i <= Len(paths)
    /\ Exists(fs, PathOf(opt_targets[paths[i]]))
    /\ \E exit_code \in ExitCodes :
          /\ errors' = IF exit_code # 0 THEN errors + 1 ELSE errors
          /\ log' = log \o
                <<Event("chdir", paths[i], TRUE,
                        fs[PathOf(opt_targets[paths[i]])]),
                  Event("makepkg", paths[i], exit_code = 0,
                        fs[PathOf(opt_targets[paths[i]])])>>
    /\ i' = i + 1
    /\ UNCHANGED <<Opts, Auth, fs, pc, opt_targets, paths, iter, ret>>

\* line 231
InstallReturn ==
    /\ pc = "phase2" /\ i > Len(paths)
    /\ ret' = errors
    /\ pc' = "done"
    /\ UNCHANGED <<Opts, Auth, fs, opt_targets, errors, paths, iter, i, log>>

\* ----------------------------------------------------------------- Remove
\* lines 238-242: the matcher returned Ok(iter)
RemoveMatchOk ==
    /\ pc = "start" /\ cmd = "Remove"
    /\ ~rename_panics(targets)
    /\ opt_targets' = rename_targets(targets, FALSE)
    /\ ~MatcherFails(opt_targets', regex, srcReadable)
    /\ iter' = iterate_matching_exists(fs, opt_targets', regex)
    /\ errors' = 0
    /\ i' = 1
    /\ pc' = "remove"
    /\ UNCHANGED <<Opts, Auth, fs, paths, log, ret>>

\* mutant: a malformed pattern is skipped and the other targets are processed
RemoveMatchErr_SkipsPattern ==
    /\ pc = "start" /\ cmd = "Remove"
    /\ ~rename_panics(targets)
    /\ opt_targets' = rename_targets(targets, FALSE)
    /\ MatcherFails(opt_targets', regex, srcReadable)
    /\ iter' = iterate_matching_exists(fs, opt_targets', regex)
    /\ errors' = 0 + 1
    /\ i' = 1
    /\ pc' = "remove"
    /\ UNCHANGED <<Opts, Auth, fs, paths, log, ret>>

\* lines 238-241, 296-299: the matcher returned Err
RemoveMatchErr ==
    /\ pc = "start" /\ cmd = "Remove"
    /\ ~rename_panics(targets)
    /\ opt_targets' = rename_targets(targets, FALSE)
    /\ MatcherFails(opt_targets', regex, srcReadable)
    /\ errors' = 0 + 1
    /\ pc' = "return"
    /\ UNCHANGED <<Opts, Auth, fs, paths, iter, i, log, ret>>

\* mutant: ask_bool is evaluated although opt.force is set
RemoveForced_Prompts ==
    /\ pc = "remove" /\ i <= Len(iter)
    /\ force
    /\ \E answer \in BOOLEAN :
          /\ log' = Append(log, Event("ask", i, answer, fs[iter[i]]))
          /\ IF answer
             THEN pc' = "uninstall" /\ i' = i
             ELSE pc' = "remove" /\ i' = i + 1
    /\ UNCHANGED <<Opts, Auth, fs, opt_targets, errors, paths, iter, ret>>

\* mutant: with force the directory is deleted without running pacman
RemoveForced_SkipsUninstall ==
    /\ pc = "remove" /\ i <= Len(iter)
    /\ force
    /\ pc' = "delete"
    /\ UNCHANGED <<Opts, Auth, fs, opt_targets, errors, paths, iter, i, log, ret>>

\* line 245: opt.force short-circuits the prompt
RemoveForced ==
    /\ pc = "remove" /\ i <= Len(iter)
    /\ force
    /\ pc' = "uninstall"
    /\ UNCHANGED <<Opts, Auth, fs, opt_targets, errors, paths, iter, i, log, ret>>

\* line 245: ask_bool answered yes
RemoveAskYes ==
    /\ pc = "remove" /\ i <= Len(iter)
    /\ ~force
    /\ log' = Append(log, Event("ask", i, TRUE, fs[iter[i]]))
    /\ pc' = "uninstall"
    /\ UNCHANGED <<Opts, Auth, fs, opt_targets, errors, paths, iter, i, ret>>

\* mutant: the answer is ignored, the body runs after a no
RemoveAskNo_Proceeds ==
    /\ pc = "remove" /\ i <= Len(iter)
    /\ ~force
    /\ log' = Append(log, Event("ask", i, FALSE, fs[iter[i]]))
    /\ pc' = "uninstall"
    /\ UNCHANGED <<Opts, Auth, fs, opt_targets, errors, paths, iter, i, ret>>

\* line 245: ask_bool answered no, the body is skipped
RemoveAskNo ==
    /\ pc = "remove" /\ i <= Len(iter)
    /\ ~force
    /\ log' = Append(log, Event("ask", i, FALSE, fs[iter[i]]))
    /\ i' = i + 1
    /\ UNCHANGED <<Opts, Auth, fs, pc, opt_targets, errors, paths, iter, ret>>

\* mutant: the deletion is gated on the exit code alone, force is ignored
RemoveUninstall_IgnoresForce ==
    /\ pc = "uninstall"
    /\ \E exit_code \in ExitCodes :
          /\ errors' = IF exit_code # 0 THEN errors + 1 ELSE errors
          /\ log' = Append(log, Event("pacman", i, exit_code = 0, fs[iter[i]]))
          /\ IF exit_code = 0
             THEN pc' = "delete" /\ i' = i
             ELSE pc' = "remove" /\ i' = i + 1
    /\ UNCHANGED <<Opts, Auth, fs, opt_targets, paths, iter, ret>>

\* lines 246-278: pacman -Rns ran
RemoveUninstall ==
    /\ pc = "uninstall"
    /\ \E exit_code \in ExitCodes :
          /\ errors' = IF exit_code # 0 THEN errors + 1 ELSE errors
          /\ log' = Append(log, Event("pacman", i, exit_code = 0, fs[iter[i]]))
          /\ IF exit_code = 0 \/ force
             THEN pc' = "delete" /\ i' = i
             ELSE pc' = "remove" /\ i' = i + 1
    /\ UNCHANGED <<Opts, Auth, fs, opt_targets, paths, iter, ret>>

\* mutant: a failed deletion is not counted
RemoveDelete_Uncounted ==
    /\ pc = "delete"
    /\ \E outcome \in RmOutcomes :
          LET exit_code == force_remove_dir(outcome) IN
          /\ fs' = RemoveDirFs(fs, iter[i], outcome)
          /\ log' = Append(log, Event("rm", i, exit_code = 0, fs[iter[i]]))
    /\ i' = i + 1
    /\ pc' = "remove"
    /\ UNCHANGED <<Opts, Auth, opt_targets, errors, paths, iter, ret>>

\* lines 279-291: force_remove_dir on the matched path
RemoveDelete ==
    /\ pc = "delete"
    /\ \E outcome \in RmOutcomes :
          LET exit_code == force_remove_dir(outcome) IN
          /\ fs' = RemoveDirFs(fs, iter[i], outcome)
          /\ errors' = IF exit_code # 0 THEN errors + 1 ELSE errors
          /\ log' = Append(log, Event("rm", i, exit_code = 0, fs[iter[i]]))
    /\ i' = i + 1
    /\ pc' = "remove"
    /\ UNCHANGED <<Opts, Auth, opt_targets, paths, iter, ret>>

\* the loop over iter is over
RemoveLoopEnd ==
    /\ pc = "remove" /\ i > Len(iter)
    /\ pc' = "return"
    /\ UNCHANGED <<Opts, Auth, fs, opt_targets, errors, paths, iter, i, log, ret>>

\* line 302
RemoveReturn ==
    /\ pc = "return"
    /\ ret' = errors
    /\ pc' = "done"
    /\ UNCHANGED <<Opts, Auth, fs, opt_targets, errors, paths, iter, i, log>>

Next ==
    \/ RenamePanic
    \/ ListStart
    \/ ListExec
    \/ InstallStart
    \/ InstallReuse
    \/ InstallCloneOk
    \/ InstallCloneErr
    \/ InstallCleanup
    \/ InstallInfo
    \/ InstallChdirErr
    \/ InstallMakepkg
    \/ InstallReturn
    \/ RemoveMatchOk
    \/ RemoveMatchErr
    \/ RemoveForced
    \/ RemoveAskYes
    \/ RemoveAskNo
    \/ RemoveUninstall
    \/ RemoveDelete
    \/ RemoveLoopEnd
    \/ RemoveReturn

Spec == Init /\ [][Next]_vars

\* exec is sequential code and every external command returns: a step that
\* can be taken is taken
FairSpec == Spec /\ WF_vars(Next)

\* ------------------------------------------------- reading the log
Last(q) == q[Len(q)]

\* operation op ran for target t
Did(op, t) == \E n \in 1..Len(log) : log[n].op = op /\ log[n].t = t

\* operation op ran for target t with this result
DidWith(op, t, ok) ==
    \E n \in 1..Len(log) : log[n].op = op /\ log[n].t = t /\ log[n].ok = ok

\* how many times op ran for target t
Count(op, t) == Cardinality({n \in 1..Len(log) : log[n].op = op /\ log[n].t = t})

Installed == cmd = "Install" /\ pc = "done"

CloneFailedTargets == {t \in 1..Len(opt_targets) : DidWith("clone", t, FALSE)}

\* the target was resolved and then reused or cloned
Materialized(t) == Did("reuse", t) \/ DidWith("clone", t, TRUE)

\* phase 2 reached the target: chdir was tried, and makepkg ran if chdir worked
BuildAttempted(t) ==
    /\ Did("chdir", t)
    /\ DidWith("chdir", t, TRUE) => Did("makepkg", t)

\* ---------------------------------------------------------------- C1
\* C1 as stated: at the end of an Install batch every target whose clone
\* failed was counted and never given to makepkg, and makepkg was invoked
\* for every other target.
C1_AsStated ==
    Installed =>
        /\ errors >= Cardinality(CloneFailedTargets)
        /\ \A t \in 1..Len(opt_targets) :
              IF t \in CloneFailedTargets
              THEN ~Did("makepkg", t)
              ELSE Materialized(t) /\ Did("makepkg", t)

\* C1 (amended): in an Install batch every target whose clone failed is
\* counted in errors and is never given to chdir or makepkg, and at the end
\* every other target was resolved, reused or cloned, and given its build
\* attempt: makepkg ran for it unless set_current_dir failed on its path.
C1_FailureIsolation ==
    cmd = "Install" =>
        /\ errors >= Cardinality(CloneFailedTargets)
        /\ \A t \in CloneFailedTargets :
              ~Did("makepkg", t) /\ ~Did("chdir", t)
        /\ pc = "done" =>
              /\ Len(opt_targets) = Len(targets)
              /\ \A t \in 1..Len(opt_targets) :
                    t \notin CloneFailedTargets =>
                        Materialized(t) /\ BuildAttempted(t)

\* three targets, only the second clone fails, the first and third are built
C1_Witness ==
    /\ Installed
    /\ Len(targets) = 3
    /\ CloneFailedTargets = {2}
    /\ errors >= 1
    /\ Did("makepkg", 1) /\ Did("makepkg", 3) /\ ~Did("makepkg", 2)

\* ---------------------------------------------------------------- C2
\* the cleanup of a failed clone has just run (nothing ran after it)
CleanupJustRan ==
    /\ cmd = "Install"
    /\ Len(log) > 0
    /\ Last(log).op = "rm"

\* C2 as stated: once the cleanup of a failed clone has run, nothing exists at
\* the destination path of that target.
C2_AsStated ==
    CleanupJustRan => ~Exists(fs, PathOf(opt_targets[Last(log).t]))

\* C2 (amended): once the cleanup of a failed clone has run and rm exited 0,
\* nothing exists at the destination path of that target, whatever the clone
\* left there; when rm failed, what the clone left is still there.
C2_CleanupRemoves ==
    CleanupJustRan =>
        LET path == PathOf(opt_targets[Last(log).t]) IN
        IF Last(log).ok THEN ~Exists(fs, path) ELSE fs[path] = Last(log).was

\* a failed clone left a partial directory and the cleanup removed it
C2_Witness ==
    /\ CleanupJustRan
    /\ Last(log).ok
    /\ Last(log).was = "partial"
    /\ ~Exists(fs, PathOf(opt_targets[Last(log).t]))

\* ---------------------------------------------------------------- C3
ReusedTargets == {t \in 1..Len(opt_targets) : Did("reuse", t)}

\* C3 as stated: at the end of an Install batch, every target whose path
\* existed when it was processed was not cloned, its directory is as it was,
\* and makepkg was invoked for it.
C3_AsStated ==
    Installed =>
        \A t \in ReusedTargets :
            /\ ~Did("clone", t)
            /\ \A n \in 1..Len(log) :
                  (log[n].op = "reuse" /\ log[n].t = t) =>
                      fs[PathOf(opt_targets[t])] = log[n].was
            /\ Did("makepkg", t)

\* C3 (amended): a target whose path existed when it was processed is never
\* cloned and never removed, its directory stays as it was found, and at the
\* end of the batch it was given its build attempt: makepkg ran for it unless
\* set_current_dir failed on its path.
C3_ExistingReused ==
    cmd = "Install" =>
        \A t \in ReusedTargets :
            /\ ~Did("clone", t) /\ ~Did("rm", t)
            /\ \A n \in 1..Len(log) :
                  (log[n].op = "reuse" /\ log[n].t = t) =>
                      /\ log[n].was # "none"
                      /\ fs[PathOf(opt_targets[t])] = log[n].was
            /\ pc = "done" => BuildAttempted(t)

\* a directory that existed before the run was reused and built, not cloned
C3_Witness ==
    /\ Installed
    /\ \E t \in ReusedTargets :
          /\ Exists(fs0, PathOf(opt_targets[t]))
          /\ Did("makepkg", t)
          /\ ~Did("clone", t)

\* ---------------------------------------------------------------- C4
\* the matches the Remove loop is done with and ran the uninstall action for
ProcessedMatches == {j \in 1..Len(iter) : j < i /\ Did("pacman", j)}

\* C4 as stated: once Remove has processed a match, its directory is gone if
\* pacman returned 0 or force was given, and is present otherwise.
C4_AsStated ==
    cmd = "Remove" =>
        \A j \in ProcessedMatches :
            IF DidWith("pacman", j, TRUE) \/ force
            THEN ~Exists(fs, iter[j])
            ELSE Exists(fs, iter[j])

\* C4 (amended): once Remove has processed a match, force_remove_dir was run
\* on its directory exactly if pacman returned 0 or force was given (so with
\* force also after a failed uninstall), and the directory is gone exactly if
\* that rm exited 0; it is still present when rm failed or was not run.
C4_DeletionGate ==
    cmd = "Remove" =>
        \A j \in ProcessedMatches :
            /\ Did("rm", j) <=> (DidWith("pacman", j, TRUE) \/ force)
            /\ Exists(fs, iter[j]) <=> ~DidWith("rm", j, TRUE)

\* force, a failed uninstall, and the directory deleted all the same; and in
\* the same run a match whose deletion was run after pacman returned 0
C4_Witness ==
    /\ cmd = "Remove" /\ pc = "done" /\ force
    /\ \E j \in ProcessedMatches :
          /\ DidWith("pacman", j, FALSE)
          /\ DidWith("rm", j, TRUE)
          /\ ~Exists(fs, iter[j])
    /\ \E j \in ProcessedMatches :
          DidWith("pacman", j, TRUE) /\ DidWith("rm", j, TRUE)

\* ---------------------------------------------------------------- C5
MatcherFailed ==
    /\ cmd = "Remove" /\ pc \notin {"start", "panicked"}
    /\ MatcherFails(opt_targets, regex, srcReadable)

FailedActions ==
    {n \in 1..Len(log) : log[n].op \in {"pacman", "rm"} /\ ~log[n].ok}

\* C5: in Remove without force, pacman and rm run for a match only after the
\* prompt for that match was answered yes; a match whose prompt was answered
\* no gets neither, keeps its directory and adds nothing to errors (errors
\* counts the failed pacman and rm runs alone), and the loop goes on: at the
\* end every match was asked about.
C5_DeclineSkips ==
    (cmd = "Remove" /\ ~force /\ ~MatcherFailed) =>
        /\ \A n \in 1..Len(log) :
              log[n].op \in {"pacman", "rm"} =>
                  \E m \in 1..(n - 1) :
                      log[m].op = "ask" /\ log[m].t = log[n].t /\ log[m].ok
        /\ \A j \in 1..Len(iter) :
              DidWith("ask", j, FALSE) =>
                  /\ ~Did("pacman", j) /\ ~Did("rm", j)
                  /\ Exists(fs, iter[j])
                  /\ Count("ask", j) = 1
        /\ errors = Cardinality(FailedActions)
        /\ pc \in {"return", "done"} => \A j \in 1..Len(iter) : Did("ask", j)

\* the first match was declined and kept, the second was then asked about and
\* uninstalled
C5_Witness ==
    /\ cmd = "Remove" /\ pc = "done" /\ ~force
    /\ Len(iter) >= 2
    /\ DidWith("ask", 1, FALSE) /\ Exists(fs, iter[1])
    /\ DidWith("ask", 2, TRUE) /\ DidWith("pacman", 2, TRUE)
    /\ errors = 0

\* ---------------------------------------------------------------- C6
\* C6: in Remove with force the prompt is never shown, and at the end pacman
\* was run for every match.
C6_ForceBypassesPrompt ==
    (cmd = "Remove" /\ force) =>
        /\ \A n \in 1..Len(log) : log[n].op # "ask"
        /\ pc \in {"return", "done"} => \A j \in 1..Len(iter) : Did("pacman", j)

\* a forced run over several matches, each uninstalled without a prompt
C6_Witness ==
    /\ cmd = "Remove" /\ pc = "done" /\ force
    /\ Len(iter) >= 2
    /\ \A j \in 1..Len(iter) : Did("pacman", j) /\ ~Did("ask", j)

\* ---------------------------------------------------------------- C7
\* the targets (Install) or matches (Remove) that failed at some stage
FailedTargets ==
    {t \in 1..(Len(opt_targets) + Len(iter)) :
        \E n \in 1..Len(log) : log[n].t = t /\ log[n].op # "ask" /\ ~log[n].ok}

\* the failures exec counts: every failed stage but the cleanup of a failed
\* clone, whose exit code Install drops
CountedFailures(t) ==
    {n \in 1..Len(log) :
        /\ log[n].t = t
        /\ ~log[n].ok
        /\ \/ log[n].op \in {"clone", "chdir", "makepkg", "pacman"}
           \/ log[n].op = "rm" /\ cmd = "Remove"}

RECURSIVE SumCounted(_)
SumCounted(t) ==
    IF t = 0 THEN 0 ELSE Cardinality(CountedFailures(t)) + SumCounted(t - 1)

\* C7 as stated: at the end of a batch whose matcher did not fail, errors is
\* the number of targets that failed at some stage.
C7_AsStated ==
    (pc = "done" /\ ~MatcherFailed) => errors = Cardinality(FailedTargets)

\* C7 (amended): errors is the number of failed stages exec counts, not of
\* failed targets: a failed clone, a failed chdir, a non-zero makepkg, a
\* non-zero pacman and, in Remove, a failed rm each add 1. An Install target
\* adds at most 1; a Remove match adds at most 2, and adds 2 only under force
\* when both its uninstall and its deletion fail.
C7_ErrorCount ==
    ~MatcherFailed =>
        /\ errors = SumCounted(Len(opt_targets) + Len(iter))
        /\ \A t \in 1..(Len(opt_targets) + Len(iter)) :
              /\ cmd = "Install" => Cardinality(CountedFailures(t)) <= 1
              /\ cmd = "Remove" => Cardinality(CountedFailures(t)) <= 2
              /\ Cardinality(CountedFailures(t)) = 2 =>
                    /\ cmd = "Remove" /\ force
                    /\ DidWith("pacman", t, FALSE) /\ DidWith("rm", t, FALSE)

\* one match, forced: pacman failed, rm failed, and exec returned 2
C7_Witness ==
    /\ cmd = "Remove" /\ pc = "done" /\ force
    /\ Len(iter) = 1
    /\ DidWith("pacman", 1, FALSE) /\ DidWith("rm", 1, FALSE)
    /\ ret = 2

\* ---------------------------------------------------------------- C8
\* no clone, chdir, makepkg, pacman or rm failed
NoStageFailed == \A n \in 1..Len(log) : log[n].op # "ask" => log[n].ok

\* C8 as stated: for Install and Remove exec returns errors, and returns 0
\* exactly when no stage of any target failed and the source root could be
\* read.
C8_AsStated ==
    (cmd \in {"Install", "Remove"} /\ pc = "done") =>
        /\ ret = errors
        /\ ret = 0 <=> (NoStageFailed /\ srcReadable)

\* C8 (amended): for Install and Remove exec returns errors, and returns 0
\* exactly when the matcher did not fail as a whole (no malformed pattern in
\* regex mode, source root readable) and no stage of any target failed.
C8_ReturnValue ==
    (cmd \in {"Install", "Remove"} /\ pc = "done") =>
        /\ ret = errors
        /\ ret = 0 <=> (NoStageFailed /\ ~MatcherFailed)

\* an Install that reused one target, cloned another, built both and returned 0
C8_Witness ==
    /\ Installed
    /\ ret = 0
    /\ \E t \in 1..Len(opt_targets) : Did("reuse", t) /\ DidWith("makepkg", t, TRUE)
    /\ \E t \in 1..Len(opt_targets) :
          DidWith("clone", t, TRUE) /\ DidWith("makepkg", t, TRUE)

\* ---------------------------------------------------------------- C9
\* every target of the batch was processed
AllProcessed ==
    IF cmd = "Install"
    THEN /\ Len(opt_targets) = Len(targets)
         /\ \A t \in 1..Len(opt_targets) : Did("reuse", t) \/ Did("clone", t)
         /\ \A t \in 1..Len(opt_targets) : Materialized(t) => BuildAttempted(t)
    ELSE ~MatcherFailed =>
            \A j \in 1..Len(iter) :
                IF force THEN Did("pacman", j) ELSE Did("ask", j)

\* C9: errors never decreases, every batch whose targets were resolved comes
\* to its end, and at its end every target was processed and every collected
\* path had its build attempt, whatever failed on the way.
C9_NoFailFast ==
    /\ [][errors' >= errors]_vars
    /\ (pc \in {"phase1", "remove"}) ~> (pc = "done")
    /\ [](pc = "done" => AllProcessed)

\* a clone failed, the first build failed, and the later path still got its
\* build attempt
C9_Witness ==
    /\ Installed
    /\ CloneFailedTargets # {}
    /\ Len(paths) >= 2
    /\ DidWith("makepkg", paths[1], FALSE)
    /\ Did("chdir", paths[2])
    /\ errors >= 2

\* ---------------------------------------------------------------- C10
\* C10: when the matcher fails as a whole, Remove asks nothing, runs neither
\* pacman nor rm, leaves every directory as it was, and returns at least 1.
C10_MatcherFailure ==
    MatcherFailed =>
        /\ log = <<>>
        /\ fs = fs0
        /\ errors >= 1
        /\ pc = "done" => ret >= 1

\* a malformed pattern next to a pattern that matches an existing directory:
\* nothing was removed and exec returned 1
C10_Witness ==
    /\ MatcherFailed /\ pc = "done"
    /\ regex /\ srcReadable
    /\ \E n \in 1..Len(opt_targets) :
          /\ ~Malformed(opt_targets[n].id)
          /\ \E name \in Dirs :
                Exists(fs, name) /\ Matches(opt_targets[n], name, regex)
    /\ ret = 1

\* ---------------------------------------------------------------- C11
\* the process has ended: exec returned, or rename_targets panicked
Terminated == pc \in {"done", "panicked"}

\* target n was resolved, and Install went on to reuse or clone it
ResolvedAndProcessed(n) ==
    \E m \in 1..Len(opt_targets) :
        /\ opt_targets[m] = LocationFromStr(AUR_URL, targets[n])
        /\ cmd = "Install" => Did("reuse", m) \/ Did("clone", m)

\* C11 as stated: when an Install or Remove batch has ended, every target
\* that can be resolved to a Location was resolved and processed, also when
\* another target of the batch could not be resolved.
C11_AsStated ==
    (Terminated /\ cmd \in {"Install", "Remove"}) =>
        \A n \in 1..Len(targets) :
            Parses(AUR_URL, targets[n]) => ResolvedAndProcessed(n)

\* ---------------------------------------------------------------- C12
\* line 53: the default base with no sub-path
Sentinel == LocationFromStr(AUR_URL, "")

\* opt_targets has one Location per target, in the order of the targets
SameLengthAndOrder ==
    /\ Len(opt_targets) = Len(targets)
    /\ \A n \in 1..Len(targets) :
          opt_targets[n].url = <<AUR_URL, targets[n]>>

\* C12: List (fill_empty = true) resolves an empty target list to exactly the
\* sentinel and any other list to a list of the same length and order;
\* Install and Remove (fill_empty = false) always get a list of the same
\* length and order, so an Install without targets runs no clone, no build
\* and no deletion, changes nothing and returns 0.
C12_FillEmpty ==
    /\ (cmd = "List" /\ pc \in {"list", "done"}) =>
          IF targets = <<>>
          THEN opt_targets = <<Sentinel>>
          ELSE SameLengthAndOrder
    /\ (cmd \in {"Install", "Remove"} /\ pc \notin {"start", "panicked"}) =>
          SameLengthAndOrder
    /\ (cmd = "Install" /\ targets = <<>>) =>
          /\ log = <<>> /\ fs = fs0 /\ errors = 0 /\ paths = <<>>
          /\ pc = "done" => ret = 0

\* a List without targets ran on the sentinel alone
C12_Witness ==
    /\ cmd = "List" /\ pc = "done"
    /\ targets = <<>>
    /\ opt_targets = <<Sentinel>>
    /\ Sentinel.url = <<AUR_URL, "">>

\* ---------------------------------------------------------------- C13
\* the targets have been resolved, one Location for each
TargetsResolved ==
    /\ pc \notin {"start", "panicked"}
    /\ Len(opt_targets) = Len(targets)

\* C13 as stated: a resolved target that is a URL of its own has that URL as
\* its url, and only a shorthand target has the default base followed by the
\* target.
C13_AsStated ==
    TargetsResolved =>
        \A n \in 1..Len(targets) :
            opt_targets[n].url =
                IF IsUrl(targets[n])
                THEN <<targets[n]>>
                ELSE <<AUR_URL, targets[n]>>

\* C13 (amended): every resolved target, shorthand or URL of its own, has as
\* its url the default base followed by the target as given; a URL target
\* never keeps its own URL.
C13_AlwaysPrefixed ==
    TargetsResolved =>
        \A n \in 1..Len(targets) :
            /\ opt_targets[n].url[1] = AUR_URL
            /\ opt_targets[n].url[Len(opt_targets[n].url)] = targets[n]
            /\ opt_targets[n].url # <<targets[n]>>

\* an Install cloned a URL target from the default base followed by that URL
C13_Witness ==
    /\ Installed
    /\ \E n \in 1..Len(targets) :
          /\ IsUrl(targets[n])
          /\ DidWith("clone", n, TRUE)
          /\ opt_targets[n].url = <<AUR_URL, URL_TARGET>>

\* ---------------------------------------------------------------- C14
Phase1Ops == {"reuse", "clone", "rm"}
Phase2Ops == {"chdir", "makepkg"}

\* where in the log target t was materialized (reused or cloned)
MaterializedAt(t) ==
    CHOOSE k \in 1..Len(log) :
        log[k].t = t /\ log[k].op \in {"reuse", "clone"} /\ log[k].ok

\* C14: in Install every reuse, clone and cleanup comes before the first
\* chdir or makepkg; when the first build attempt is made every target has
\* been reused or cloned; and the build attempts come in the order in which
\* their targets were materialized.
C14_TwoPhase ==
    cmd = "Install" =>
        /\ \A n, m \in 1..Len(log) :
              (log[n].op \in Phase1Ops /\ log[m].op \in Phase2Ops) => n < m
        /\ (\E n \in 1..Len(log) : log[n].op \in Phase2Ops) =>
              \A t \in 1..Len(opt_targets) : Did("reuse", t) \/ Did("clone", t)
        /\ \A n, m \in 1..Len(log) :
              (n < m /\ log[n].op \in Phase2Ops /\ log[m].op \in Phase2Ops
                     /\ log[n].t # log[m].t) =>
                  /\ Materialized(log[n].t) /\ Materialized(log[m].t)
                  /\ MaterializedAt(log[n].t) < MaterializedAt(log[m].t)

\* the second target was cloned before the first, a reused one, was built,
\* and the two were built in that order
C14_Witness ==
    /\ Installed
    /\ Did("reuse", 1) /\ DidWith("clone", 2, TRUE)
    /\ \E n, m \in 1..Len(log) :
          /\ n < m
          /\ log[n].op = "makepkg" /\ log[n].t = 1
          /\ log[m].op = "makepkg" /\ log[m].t = 2
          /\ MaterializedAt(2) < n

\* ---------------------------------------------------------------- C15
\* the failures Install counts: never the cleanup
InstallCounted ==
    {n \in 1..Len(log) : log[n].op \in {"clone", "chdir", "makepkg"} /\ ~log[n].ok}

\* C15: in Install the errors of phase 1 are the failed clones, one each,
\* whether their cleanup succeeded or failed; a cleanup, failed or not,
\* follows the failed clone it belongs to, which stays reported and counted;
\* and after a failed cleanup the batch goes on: when phase 1 is over every
\* target was reused or cloned.
C15_CleanupNotCounted ==
    cmd = "Install" =>
        /\ errors = Cardinality(InstallCounted)
        /\ pc \in {"phase1", "cleanup"} => errors = Cardinality(CloneFailedTargets)
        /\ \A n \in 1..Len(log) :
              log[n].op = "rm" =>
                  /\ n > 1
                  /\ log[n - 1] = Event("clone", log[n].t, FALSE, "none")
        /\ pc \in {"phase2", "done"} =>
              \A t \in 1..Len(opt_targets) : Did("reuse", t) \/ Did("clone", t)

\* two failed clones, one cleaned up and one not, counted as 2, and a third
\* target cloned and built after them
C15_Witness ==
    /\ Installed
    /\ DidWith("clone", 1, FALSE) /\ DidWith("rm", 1, FALSE)
    /\ DidWith("clone", 2, FALSE) /\ DidWith("rm", 2, TRUE)
    /\ DidWith("clone", 3, TRUE) /\ DidWith("makepkg", 3, TRUE)
    /\ errors = 2

\* ---------------------------------------------------------------- C16
CloneCalls == {n \in 1..Len(log) : log[n].op = "clone"}

\* C16: an Install batch makes one AuthCache, before any clone, and every
\* clone of the batch is given that one: each clone finds in its cache the
\* credentials that an earlier clone of the batch stored.
C16_OneAuthCache ==
    cmd = "Install" =>
        /\ pc \notin {"start", "panicked"} => Len(auth_cache) = 1
        /\ Len(clone_auth) = Cardinality(CloneCalls)
        /\ \A n \in 1..Len(clone_auth) :
              /\ clone_auth[n].cache = 1
              /\ clone_auth[n].seen <=>
                    \E m \in 1..(n - 1) : clone_auth[m].stored

\* the first clone stored credentials and two later clones found them
C16_Witness ==
    /\ Installed
    /\ Len(clone_auth) = 3
    /\ clone_auth[1].stored
    /\ clone_auth[2].seen /\ clone_auth[3].seen
    /\ clone_auth[1].t # clone_auth[3].t

\* ---------------------------------------------------------------- C17
\* C17: in Install force_remove_dir runs only right after a failed clone of
\* the same target whose path did not exist when the clone began, so what it
\* removes is what that clone left; a directory that existed when the
\* program started, or that a target of the batch was reused from or cloned
\* into, is still there, also when the list names a target more than once.
C17_NoExistingRemoved ==
    cmd = "Install" =>
        /\ \A n \in 1..Len(log) :
              log[n].op = "rm" =>
                  /\ n > 1
                  /\ log[n - 1].op = "clone" /\ ~log[n - 1].ok
                  /\ log[n - 1].t = log[n].t
                  /\ log[n - 1].was = "none"
                  /\ log[n].was \in CloneLeftovers
        /\ \A d \in Dirs : fs0[d] = "repo" => fs[d] = "repo"
        /\ \A t \in 1..Len(opt_targets) :
              Materialized(t) => Exists(fs, PathOf(opt_targets[t]))

\* a target named twice: its first clone failed and was cleaned up, its
\* second clone made the directory; a directory that was there before the
\* run was reused and is still there
C17_Witness ==
    /\ Installed
    /\ Len(targets) = 3 /\ targets[1] = targets[2]
    /\ DidWith("clone", 1, FALSE) /\ DidWith("rm", 1, TRUE)
    /\ DidWith("clone", 2, TRUE)
    /\ Did("reuse", 3)
    /\ fs0[PathOf(opt_targets[3])] = "repo"
    /\ fs[PathOf(opt_targets[3])] = "repo"

\* ---------------------------------------------------------------- C18
\* the build attempts of phase 2 made so far
BuildAttempts == {n \in 1..Len(log) : log[n].op = "chdir"}

\* C18: in phase 1 every target processed so far was either collected or
\* counted as an error, so at the end of phase 1 the collected paths and the
\* errors add up to the number of targets; phase 2 makes one build attempt
\* for each collected path, in turn: one chdir, and one makepkg if the chdir
\* worked, also for a path that was collected twice.
C18_OneAttemptPerPath ==
    cmd = "Install" =>
        /\ pc = "phase1" => Len(paths) + errors = i - 1
        /\ (pc = "phase2" /\ i = 1) => Len(paths) + errors = Len(targets)
        /\ pc \in {"phase2", "done"} =>
              /\ Len(paths) + Cardinality(CloneFailedTargets) = Len(targets)
              /\ Cardinality(BuildAttempts) = i - 1
              /\ \A k \in 1..Len(paths) :
                    /\ Count("chdir", paths[k]) = (IF k < i THEN 1 ELSE 0)
                    /\ Count("makepkg", paths[k]) =
                          (IF DidWith("chdir", paths[k], TRUE) THEN 1 ELSE 0)
        /\ pc = "done" => Cardinality(BuildAttempts) = Len(paths)

\* one target named twice: cloned once, collected twice, built twice
C18_Witness ==
    /\ Installed
    /\ Len(targets) = 2 /\ targets[1] = targets[2]
    /\ DidWith("clone", 1, TRUE) /\ Did("reuse", 2)
    /\ Len(paths) = 2
    /\ Count("makepkg", 1) = 1 /\ Count("makepkg", 2) = 1

\* ---------------------------------------------------------------- C19
\* the directories the matcher yielded in this run
Yielded == {iter[j] : j \in 1..Len(iter)}

\* C19: in Remove, rm runs for a match only directly after pacman was run
\* for that same match in the same run (and returned 0, or force was
\* given); every match is a directory that existed and that a target
\* matches; a directory the matcher did not yield is never touched, and a
\* directory that is gone was yielded and removed after its pacman run.
C19_UninstallBeforeDelete ==
    cmd = "Remove" =>
        /\ \A n \in 1..Len(log) :
              log[n].op = "rm" =>
                  /\ n > 1
                  /\ log[n - 1].op = "pacman"
                  /\ log[n - 1].t = log[n].t
                  /\ log[n - 1].ok \/ force
                  /\ log[n].t \in 1..Len(iter)
        /\ \A j \in 1..Len(iter) :
              /\ Exists(fs0, iter[j])
              /\ \E n \in 1..Len(opt_targets) :
                    Matches(opt_targets[n], iter[j], regex)
        /\ \A d \in Dirs :
              fs[d] # fs0[d] =>
                  /\ d \in Yielded
                  /\ \E j \in 1..Len(iter) :
                        /\ iter[j] = d
                        /\ Did("pacman", j)
                        /\ DidWith("rm", j, TRUE)

\* a forced run whose pacman failed and whose directory was deleted all the
\* same, next to a directory the matcher did not yield and that is still there
C19_Witness ==
    /\ cmd = "Remove" /\ pc = "done" /\ force
    /\ Len(iter) >= 1
    /\ DidWith("pacman", 1, FALSE) /\ DidWith("rm", 1, TRUE)
    /\ ~Exists(fs, iter[1])
    /\ \E d \in Dirs : d \notin Yielded /\ Exists(fs0, d) /\ Exists(fs, d)

=============================================================================
